---- MODULE Spec2Model ----
(***************************************************************************)
(* LowLevelBinlogStreamReaderWrapper                                       *)
(* (replication_handler/components/low_level_binlog_stream_reader_wrapper) *)
(*                                                                         *)
(* Strings are sequences of tokens, so that endswith, slicing and          *)
(* formatting are computed and not assumed.  A table name is a sequence    *)
(* over Alphabet; the two tokens "_data_pipeline" and "_refresh" spell the *)
(* refresh suffix '_data_pipeline_refresh'.                                *)
(*                                                                         *)
(* Optional values: None is the record with isNone = TRUE.                 *)
(***************************************************************************)
EXTENDS Naturals, Sequences, FiniteSets, TLC

VARIABLES
    table_whitelist,   \* config.env_config.table_whitelist
    only_tables,       \* the only_tables handed to the stream by __init__
    stream_log_pos,    \* self.stream.log_pos
    stream_log_file,   \* self.stream.log_file
    current_events,    \* self.current_events, the buffer
    event,             \* the raw event of the last stream.fetchone()
    result,            \* outcome of the last _prepare_event call
    pulled,            \* number of stream.fetchone() calls so far
    produced,          \* units prepared from the raw events pulled so far
    popped,            \* units returned by pop() so far
    last,              \* the last peek()/pop() call: its buffer before, what it returned
    pc                 \* position of the caller

vars == <<table_whitelist, only_tables, stream_log_pos, stream_log_file,
          current_events, event, result, pulled, produced, popped, last, pc>>

-----------------------------------------------------------------------------
(* Bounds *)

MaxNameLen == 4        \* tokens in a table name delivered by the stream
MaxWhitelistNameLen == 3   \* tokens in a whitelisted table name
MaxWhitelist == 2      \* entries in the whitelist
MaxRows == 2           \* rows in one row event
MaxFetch == 3          \* stream.fetchone() calls in one run of the reader

-----------------------------------------------------------------------------
(* Strings *)

Alphabet == {"t", "_data_pipeline", "_refresh"}

RECURSIVE SeqsOfLen(_, _)
SeqsOfLen(S, n) ==
    IF n = 0 THEN {<<>>}
    ELSE {Append(s, x) : s \in SeqsOfLen(S, n - 1), x \in S}

SeqsUpTo(S, n) == UNION {SeqsOfLen(S, k) : k \in 0..n}

Range(s) == {s[i] : i \in 1..Len(s)}

\* str.endswith
endswith(s, suffix) ==
    /\ Len(s) >= Len(suffix)
    /\ SubSeq(s, Len(s) - Len(suffix) + 1, Len(s)) = suffix

\* s[:-n] for 0 < n
DropLast(s, n) == IF Len(s) >= n THEN SubSeq(s, 1, Len(s) - n) ELSE <<>>

\* "{0}{1}".format(a, b)
format(a, b) == a \o b

refresh_table_suffix == <<"_data_pipeline", "_refresh">>

-----------------------------------------------------------------------------
(* Optional lists *)

None == [isNone |-> TRUE, items |-> <<>>]

List(s) == [isNone |-> FALSE, items |-> s]

\* Python truthiness of an optional list: None and [] are false
Truthy(l) == ~l.isNone /\ l.items # <<>>

-----------------------------------------------------------------------------
(* Table filter *)

RECURSIVE only_tables_loop(_, _)
only_tables_loop(tables, res_only_table) ==
    IF tables = <<>> THEN res_only_table
    ELSE LET table_name == Head(tables) IN
         IF endswith(table_name, refresh_table_suffix)
         THEN only_tables_loop(Tail(tables), res_only_table)
         ELSE only_tables_loop(Tail(tables),
                  Append(Append(res_only_table, table_name),
                         format(table_name, refresh_table_suffix)))

\* mutant: the refresh counterpart is not appended
get_only_tables_no_refresh(whitelist) ==
    IF ~Truthy(whitelist) THEN None
    ELSE List(SelectSeq(whitelist.items,
                        LAMBDA t : ~endswith(t, refresh_table_suffix)))

\* mutant: an empty result is reported as None
get_only_tables_empty_is_none(whitelist) ==
    IF ~Truthy(whitelist) THEN None
    ELSE LET res == only_tables_loop(whitelist.items, <<>>) IN
         IF res = <<>> THEN None ELSE List(res)

_get_only_tables(whitelist) ==
    IF ~Truthy(whitelist) THEN None
    ELSE List(only_tables_loop(whitelist.items, <<>>))

-----------------------------------------------------------------------------
(* Raw events *)

allowed_event_types ==
    {"GtidEvent", "QueryEvent", "WriteRowsEvent", "UpdateRowsEvent", "DeleteRowsEvent"}

RowEventClasses == {"WriteRowsEvent", "UpdateRowsEvent", "DeleteRowsEvent"}

message_type_map ==
    [t \in {"WRITE_ROWS_EVENT_V2", "UPDATE_ROWS_EVENT_V2", "DELETE_ROWS_EVENT_V2"} |->
        CASE t = "WRITE_ROWS_EVENT_V2" -> "CreateMessage"
          [] t = "UPDATE_ROWS_EVENT_V2" -> "UpdateMessage"
          [] t = "DELETE_ROWS_EVENT_V2" -> "DeleteMessage"]

\* stream.fetchone() returned None
NoneEvent ==
    [cls |-> "None", event_type |-> "None", schema |-> "None",
     table |-> <<>>, rows |-> <<>>, timestamp |-> 0]


RowEventTypes ==
    [c \in RowEventClasses |->
        CASE c = "WriteRowsEvent" -> {"WRITE_ROWS_EVENT_V1", "WRITE_ROWS_EVENT_V2"}
          [] c = "UpdateRowsEvent" -> {"UPDATE_ROWS_EVENT_V1", "UPDATE_ROWS_EVENT_V2"}
          [] c = "DeleteRowsEvent" -> {"DELETE_ROWS_EVENT_V1", "DELETE_ROWS_EVENT_V2"}]

TableNames == SeqsUpTo(Alphabet, MaxNameLen) \ {<<>>}

Schemas == {"db1", "db2"}

Timestamps == {1, 2}

RowValues == {"r1", "r2"}

RowEvents(classes, schemas, tables, rowseqs, timestamps) ==
    UNION {[cls : {c}, event_type : RowEventTypes[c], schema : schemas,
            table : tables, rows : rowseqs, timestamp : timestamps]
           : c \in classes}

MetadataEvents(schemas, timestamps) ==
    [cls : {"QueryEvent"}, event_type : {"QUERY_EVENT"}, schema : schemas,
     table : {<<>>}, rows : {<<>>}, timestamp : timestamps]
    \cup
    [cls : {"GtidEvent"}, event_type : {"GTID_LOG_EVENT"}, schema : {"None"},
     table : {<<>>}, rows : {<<>>}, timestamp : timestamps]

\* what a stream opened with only_events = allowed_event_types and
\* only_tables = filter can return from fetchone()
Deliverable(events, filter) ==
    {e \in events :
        /\ e.cls \in allowed_event_types \cup {"None"}
        /\ e.cls \in RowEventClasses =>
              (filter.isNone \/ e.table \in Range(filter.items))}

-----------------------------------------------------------------------------
(* Event normalizer *)

Ok(events) == [err |-> "none", events |-> events]

Raised(e) == [err |-> e, events |-> <<>>]

DataEvent(schema, table, log_pos, log_file, row, timestamp, message_type) ==
    [schema |-> schema, table |-> table, log_pos |-> log_pos, log_file |-> log_file,
     row |-> row, timestamp |-> timestamp, message_type |-> message_type]

\* mutant: the first row is skipped
data_events_skip_first(row_event, target_table, message_type, log_pos, log_file) ==
    [i \in 1..(IF Len(row_event.rows) = 0 THEN 0 ELSE Len(row_event.rows) - 1) |->
        DataEvent(row_event.schema, target_table, log_pos, log_file,
                  row_event.rows[i + 1], row_event.timestamp, message_type)]

\* the list comprehension over row_event.rows
data_events(row_event, target_table, message_type, log_pos, log_file) ==
    [i \in 1..Len(row_event.rows) |->
        DataEvent(row_event.schema, target_table, log_pos, log_file,
                  row_event.rows[i], row_event.timestamp, message_type)]

\* mutant: the suffix is not removed from the table of a refresh event
target_table_keep_suffix(table) == table

target_table_of(table) ==
    IF endswith(table, refresh_table_suffix)
    THEN DropLast(table, Len(refresh_table_suffix))
    ELSE table

\* mutant: a refresh table keeps the message type of its event type
message_type_no_refresh(table, event_type) == message_type_map[event_type]

message_type_of(table, event_type) ==
    IF endswith(table, refresh_table_suffix)
    THEN "RefreshMessage"
    ELSE message_type_map[event_type]

\* mutant: the map is only consulted for tables without the suffix
get_data_events_lazy_lookup(row_event, log_pos, log_file) ==
    IF endswith(row_event.table, refresh_table_suffix)
    THEN Ok(data_events(row_event, target_table_of(row_event.table),
                        "RefreshMessage", log_pos, log_file))
    ELSE IF row_event.event_type \notin DOMAIN message_type_map
    THEN Raised("KeyError")
    ELSE Ok(data_events(row_event, row_event.table,
                        message_type_map[row_event.event_type], log_pos, log_file))

_get_data_events_from_row_event(row_event, log_pos, log_file) ==
    IF row_event.event_type \notin DOMAIN message_type_map
    THEN Raised("KeyError")
    ELSE Ok(data_events(row_event,
                        target_table_of(row_event.table),
                        message_type_of(row_event.table, row_event.event_type),
                        log_pos, log_file))

\* a QueryEvent or GtidEvent with log_pos and log_file set on it
Stamped(ev, log_pos, log_file) ==
    [cls |-> ev.cls, event_type |-> ev.event_type, schema |-> ev.schema,
     table |-> ev.table, rows |-> ev.rows, timestamp |-> ev.timestamp,
     log_pos |-> log_pos, log_file |-> log_file]

\* mutant: without the test on event, whatever is not a row event is passed on
prepare_event_no_none_check(ev, log_pos, log_file) ==
    IF ev.cls \in RowEventClasses
    THEN _get_data_events_from_row_event(ev, log_pos, log_file)
    ELSE Ok(<<Stamped(ev, log_pos, log_file)>>)

_prepare_event(ev, log_pos, log_file) ==
    IF ev.cls # "None"
    THEN IF ev.cls \in {"QueryEvent", "GtidEvent"}
         THEN Ok(<<Stamped(ev, log_pos, log_file)>>)
         ELSE IF ev.cls \in RowEventClasses
         THEN _get_data_events_from_row_event(ev, log_pos, log_file)
         ELSE Ok(<<>>)
    ELSE Ok(<<>>)

-----------------------------------------------------------------------------
(* Placeholders for the variables a specification does not use yet *)

Unset == [err |-> "unset", events |-> <<>>]

NoCall == [op |-> "none", before |-> <<>>, ret |-> <<>>, pulls |-> 0, err |-> "none"]

FirstLogFile == "mysql-bin.000001"

-----------------------------------------------------------------------------
(* The table filter: __init__ computes only_tables from the whitelist *)

WhitelistNames == SeqsUpTo(Alphabet, MaxWhitelistNameLen) \ {<<>>}

Whitelists == {None} \cup {List(w) : w \in SeqsUpTo(WhitelistNames, MaxWhitelist)}

InitFilter ==
    /\ table_whitelist \in Whitelists
    /\ only_tables = None
    /\ stream_log_pos = 4
    /\ stream_log_file = FirstLogFile
    /\ current_events = <<>>
    /\ event = NoneEvent
    /\ result = Unset
    /\ pulled = 0
    /\ produced = <<>>
    /\ popped = <<>>
    /\ last = NoCall
    /\ pc = "new"

\* __init__ up to the call of _seek
Construct ==
    /\ pc = "new"
    /\ only_tables' = _get_only_tables(table_whitelist)
    /\ pc' = "seeked"
    /\ UNCHANGED <<table_whitelist, stream_log_pos, stream_log_file, current_events,
                   event, result, pulled, produced, popped, last>>

NextFilter == Construct

SpecFilter == InitFilter /\ [][NextFilter]_vars

-----------------------------------------------------------------------------
(* The normalizer: one raw event of the stream is prepared *)

NormWhitelists == {None} \cup {List(<<t>>) : t \in WhitelistNames}

RowSeqs == SeqsUpTo(RowValues, MaxRows)

RawEvents ==
    {NoneEvent} \cup MetadataEvents(Schemas, Timestamps)
    \cup RowEvents(RowEventClasses, Schemas, TableNames, RowSeqs, Timestamps)

StreamPositions ==
    {[log_file |-> FirstLogFile, log_pos |-> 4],
     [log_file |-> "mysql-bin.000002", log_pos |-> 120]}

InitNorm ==
    /\ table_whitelist \in NormWhitelists
    /\ only_tables = _get_only_tables(table_whitelist)
    /\ \E p \in StreamPositions :
          /\ stream_log_pos = p.log_pos
          /\ stream_log_file = p.log_file
    /\ event \in Deliverable(RawEvents, only_tables)
    /\ current_events = <<>>
    /\ result = Unset
    /\ pulled = 1
    /\ produced = <<>>
    /\ popped = <<>>
    /\ last = NoCall
    /\ pc = "fetched"

\* _prepare_event(self.stream.fetchone())
Prepare ==
    /\ pc = "fetched"
    /\ result' = _prepare_event(event, stream_log_pos, stream_log_file)
    /\ pc' = "prepared"
    /\ UNCHANGED <<table_whitelist, only_tables, stream_log_pos, stream_log_file,
                   current_events, event, pulled, produced, popped, last>>

NextNorm == Prepare

SpecNorm == InitNorm /\ [][NextNorm]_vars

-----------------------------------------------------------------------------
(* The buffered reader: peek() and pop() over the stream *)

\* mutant: the buffer is extended whether or not it is empty
refill_always(cur, ev, log_pos, log_file) ==
    LET r == _prepare_event(ev, log_pos, log_file) IN
    [pulls |-> 1, prepared |-> r,
     current_events |-> IF r.err = "none" THEN cur \o r.events ELSE cur]

\* mutant: only the first prepared event is kept
refill_first_only(cur, ev, log_pos, log_file) ==
    IF cur = <<>>
    THEN LET r == _prepare_event(ev, log_pos, log_file) IN
         [pulls |-> 1, prepared |-> r,
          current_events |-> IF r.err = "none" /\ r.events # <<>>
                             THEN <<Head(r.events)>> ELSE cur]
    ELSE [pulls |-> 0, prepared |-> Unset, current_events |-> cur]

\* ev is what stream.fetchone() returns if it is called, log_pos and log_file
\* the position of the stream after that call
_refill_current_events(cur, ev, log_pos, log_file) ==
    IF cur = <<>>
    THEN LET r == _prepare_event(ev, log_pos, log_file) IN
         [pulls |-> 1, prepared |-> r,
          current_events |-> IF r.err = "none" THEN cur \o r.events ELSE cur]
    ELSE [pulls |-> 0, prepared |-> Unset, current_events |-> cur]

\* peek(): one refill, then the first buffered unit or nothing
peek(cur, ev, log_pos, log_file) ==
    LET f == _refill_current_events(cur, ev, log_pos, log_file) IN
    [refill |-> f,
     err |-> IF f.pulls > 0 THEN f.prepared.err ELSE "none",
     ret |-> IF f.current_events = <<>> THEN <<>> ELSE <<Head(f.current_events)>>,
     current_events |-> f.current_events,
     returned |-> TRUE]

\* pop(): one refill, then the first buffered unit is removed and returned;
\* with nothing to return the call stays blocked on the stream
pop(cur, ev, log_pos, log_file) ==
    LET f == _refill_current_events(cur, ev, log_pos, log_file) IN
    [refill |-> f,
     err |-> IF f.pulls > 0 THEN f.prepared.err ELSE "none",
     ret |-> IF f.current_events = <<>> THEN <<>> ELSE <<Head(f.current_events)>>,
     current_events |-> IF f.current_events = <<>> THEN <<>> ELSE Tail(f.current_events),
     returned |-> f.current_events # <<>>]

ReaderTables == {<<"t">>, <<"t">> \o refresh_table_suffix}

\* the rows r1, r2, ... of an event of n rows
ReaderRowSeqs == {[i \in 1..n |-> IF i = 1 THEN "r1" ELSE "r2"] : n \in 0..MaxRows}

ReaderEvents ==
    {NoneEvent} \cup MetadataEvents({"db1"}, {1})
    \cup RowEvents(RowEventClasses, {"db1"}, ReaderTables, ReaderRowSeqs, {1})

InitReader ==
    /\ table_whitelist = None
    /\ only_tables = _get_only_tables(table_whitelist)
    /\ stream_log_pos = 4
    /\ stream_log_file = FirstLogFile
    /\ current_events = <<>>
    /\ event = NoneEvent
    /\ result = Unset
    /\ pulled = 0
    /\ produced = <<>>
    /\ popped = <<>>
    /\ last = NoCall
    /\ pc = "idle"

\* the effect of one call c (the value of peek or pop) that fetched ev
Call(op, c, ev, log_pos) ==
    /\ c.refill.pulls = 0 \/ pulled < MaxFetch
    /\ last' = [op |-> op, before |-> current_events, ret |-> IF c.err = "none" THEN c.ret ELSE <<>>,
                pulls |-> c.refill.pulls, err |-> c.err]
    /\ current_events' = IF c.err = "none" THEN c.current_events ELSE c.refill.current_events
    /\ IF c.refill.pulls > 0
       THEN /\ pulled' = pulled + c.refill.pulls
            /\ event' = ev
            /\ result' = c.refill.prepared
            /\ stream_log_pos' = log_pos
            /\ produced' = produced \o c.refill.prepared.events
       ELSE UNCHANGED <<pulled, event, result, stream_log_pos, produced>>
    /\ UNCHANGED <<table_whitelist, only_tables, stream_log_file>>

\* the position of the stream once it has read ev
Advance(ev) == IF ev.cls = "None" THEN stream_log_pos ELSE stream_log_pos + 1

Peek ==
    /\ pc = "idle"
    /\ \E ev \in Deliverable(ReaderEvents, only_tables) :
          Call("peek", peek(current_events, ev, Advance(ev), stream_log_file), ev, Advance(ev))
    /\ UNCHANGED <<popped, pc>>

Pop ==
    /\ pc \in {"idle", "pop"}
    /\ \E ev \in Deliverable(ReaderEvents, only_tables) :
          LET c == pop(current_events, ev, Advance(ev), stream_log_file) IN
          /\ Call("pop", c, ev, Advance(ev))
          /\ popped' = IF c.err = "none" /\ c.returned THEN popped \o c.ret ELSE popped
          /\ pc' = IF c.err = "none" /\ ~c.returned THEN "pop" ELSE "idle"

NextReader == Peek \/ Pop

SpecReader == InitReader /\ [][NextReader]_vars

-----------------------------------------------------------------------------
(* Properties of the table filter (SpecFilter) *)

Suffixed(t) == endswith(t, refresh_table_suffix)

\* C4: for a non-empty whitelist W with no entry ending with the refresh
\* suffix, the computed filter holds 2*|W| names: t and t + suffix for each
\* t of W, and nothing else.
C4_FilterExpansion ==
    (/\ pc = "seeked"
     /\ Truthy(table_whitelist)
     /\ \A t \in Range(table_whitelist.items) : ~Suffixed(t))
    => /\ ~only_tables.isNone
       /\ Len(only_tables.items) = 2 * Len(table_whitelist.items)
       /\ Cardinality(Range(only_tables.items))
             = 2 * Cardinality(Range(table_whitelist.items))
       /\ Range(only_tables.items)
             = Range(table_whitelist.items)
               \cup {t \o refresh_table_suffix : t \in Range(table_whitelist.items)}

C4_Witness ==
    /\ pc = "seeked"
    /\ table_whitelist = List(<<(<<"t">>), <<"t", "t">> >>)
    /\ only_tables = List(<< <<"t">>, <<"t", "_data_pipeline", "_refresh">>,
                             <<"t", "t">>, <<"t", "t", "_data_pipeline", "_refresh">> >>)

\* C5: the filter is None exactly when the whitelist is empty or unset; a
\* non-empty whitelist of refresh tables only gives the empty list, not None.
C5_NoneIffNoWhitelist ==
    pc = "seeked" =>
       /\ only_tables.isNone <=> (table_whitelist.isNone \/ table_whitelist.items = <<>>)
       /\ (/\ Truthy(table_whitelist)
           /\ \A t \in Range(table_whitelist.items) : Suffixed(t))
          => only_tables = List(<<>>)

C5_Witness ==
    /\ pc = "seeked"
    /\ table_whitelist = List(<< <<"t", "_data_pipeline", "_refresh">> >>)
    /\ ~only_tables.isNone
    /\ only_tables.items = <<>>

-----------------------------------------------------------------------------
(* Properties of the normalizer (SpecNorm) *)

IsRowEvent(e) == e.cls \in RowEventClasses

Prepared == pc = "prepared" /\ IsRowEvent(event)

\* C1, as stated: no DataEvent of a row event has a table that ends with the
\* refresh suffix, whatever the table of the row event and whatever the filter.
C1_NoSuffixInOutput ==
    Prepared => \A i \in 1..Len(result.events) : ~Suffixed(result.events[i].table)

\* C1, amended: a DataEvent has a table that ends with the refresh suffix only
\* if the table of the row event ends with the suffix twice, and the stream
\* delivers such a table only when it has no filter.
C1_NoSuffixUnlessDoubled ==
    Prepared =>
       \A i \in 1..Len(result.events) :
          Suffixed(result.events[i].table)
             => /\ endswith(event.table, refresh_table_suffix \o refresh_table_suffix)
                /\ only_tables.isNone

C1_Witness ==
    /\ Prepared
    /\ ~only_tables.isNone
    /\ event.table = <<"t", "_data_pipeline", "_refresh">>
    /\ Len(result.events) = 2
    /\ result.events[1].table = <<"t">>
    /\ result.events[2].table = <<"t">>

\* C2: a row event of a mapped type with rows r1..rn gives n DataEvents, the
\* i-th with row ri, all with the schema and timestamp of the event, the log
\* position of the stream, and one table and one message type.
C2_RowExpansion ==
    (Prepared /\ event.event_type \in DOMAIN message_type_map) =>
       /\ result.err = "none"
       /\ Len(result.events) = Len(event.rows)
       /\ \A i \in 1..Len(result.events) :
             /\ result.events[i].row = event.rows[i]
             /\ result.events[i].schema = event.schema
             /\ result.events[i].timestamp = event.timestamp
             /\ result.events[i].log_pos = stream_log_pos
             /\ result.events[i].log_file = stream_log_file
             /\ result.events[i].table = result.events[1].table
             /\ result.events[i].message_type = result.events[1].message_type

C2_Witness ==
    /\ Prepared
    /\ event.rows = <<"r2", "r1">>
    /\ event.event_type = "UPDATE_ROWS_EVENT_V2"
    /\ Len(result.events) = 2
    /\ result.events[1].row = "r2"
    /\ result.events[2].row = "r1"
    /\ result.events[1].message_type = "UpdateMessage"

\* insert, update and delete by the class of the row event
KindMessage(e) ==
    CASE e.cls = "WriteRowsEvent" -> "CreateMessage"
      [] e.cls = "UpdateRowsEvent" -> "UpdateMessage"
      [] e.cls = "DeleteRowsEvent" -> "DeleteMessage"

\* C3: a DataEvent is a RefreshMessage exactly when the table of its row event
\* ends with the refresh suffix, and its table is then that name less one
\* suffix; otherwise the table is unchanged and the message type is the one
\* of the mutation kind.
C3_ShadowRemap ==
    Prepared =>
       \A i \in 1..Len(result.events) :
          LET d == result.events[i] IN
          /\ d.message_type = "RefreshMessage" <=> Suffixed(event.table)
          /\ Suffixed(event.table) => d.table \o refresh_table_suffix = event.table
          /\ ~Suffixed(event.table) =>
                d.table = event.table /\ d.message_type = KindMessage(event)

C3_Witness ==
    /\ Prepared
    /\ event.cls = "DeleteRowsEvent"
    /\ event.table = <<"t", "_data_pipeline", "_refresh">>
    /\ Len(event.rows) = 1
    /\ Len(result.events) = 1
    /\ result.events[1].table = <<"t">>
    /\ result.events[1].message_type = "RefreshMessage"

-----------------------------------------------------------------------------
(* Properties of the buffered reader (SpecReader) *)

\* C6: a peek() on an empty buffer pulls exactly one raw event; if that is
\* None, or prepares to the empty list, peek() returns nothing, leaves the
\* buffer empty and raises nothing.
C6_PeekOnEmptyPullsOnce ==
    (last.op = "peek" /\ last.before = <<>>) =>
       /\ last.pulls = 1
       /\ (event.cls = "None" \/ (result.err = "none" /\ result.events = <<>>))
          => /\ last.ret = <<>>
             /\ current_events = <<>>
             /\ last.err = "none"

C6_Witness ==
    /\ last.op = "peek"
    /\ last.before = <<>>
    /\ last.pulls = 1
    /\ pulled = 2
    /\ event.cls = "None"
    /\ last.ret = <<>>
    /\ current_events = <<>>

\* C7: a peek() on a non-empty buffer returns its first unit, pulls nothing
\* and leaves the buffer as it is; a peek() that follows a peek() which
\* returned a unit returns that unit.
C7_PeekDoesNotConsume ==
    [][/\ (last'.op = "peek" /\ current_events # <<>>)
          => /\ last'.ret = <<Head(current_events)>>
             /\ last'.err = "none"
             /\ current_events' = current_events
             /\ pulled' = pulled
       /\ (last.op = "peek" /\ last.ret # <<>> /\ last'.op = "peek")
          => last'.ret = last.ret]_vars

C7_Witness ==
    /\ last.op = "peek"
    /\ Len(last.before) = 2
    /\ last.pulls = 0
    /\ last.ret = <<Head(last.before)>>
    /\ current_events = last.before
    /\ popped # <<>>

\* C8, as stated: the buffer holds 0 or 1 units.
C8_AtMostOnePending == Len(current_events) <= 1

IsSuffix(s, t) == \E k \in 0..Len(t) : s = SubSeq(t, k + 1, Len(t))

\* C8, amended: the buffer holds a suffix of the units prepared from the raw
\* event pulled last, so no more units than that event has rows, or one.
C8_SuffixOfLastEvent ==
    /\ IsSuffix(current_events, result.events)
    /\ Len(current_events) <= Len(event.rows) \/ Len(current_events) <= 1

C8_Witness ==
    /\ Len(current_events) = 2
    /\ Len(event.rows) = 2
    /\ last.op = "peek"
    /\ pulled = 2

\* C9: a row event whose type is not in message_type_map raises, for a
\* refresh table as for any other; no DataEvent is prepared, the call returns
\* nothing and the buffer is as it was.
C9_UnmappedKindRaises ==
    (/\ pulled > 0
     /\ IsRowEvent(event)
     /\ event.event_type \notin {"WRITE_ROWS_EVENT_V2", "UPDATE_ROWS_EVENT_V2",
                                 "DELETE_ROWS_EVENT_V2"})
    => /\ result.err = "KeyError"
       /\ result.events = <<>>
       /\ last.err = "KeyError"
       /\ last.ret = <<>>
       /\ current_events = last.before

C9_Witness ==
    /\ last.op = "pop"
    /\ last.err = "KeyError"
    /\ event.event_type = "DELETE_ROWS_EVENT_V1"
    /\ event.table = <<"t", "_data_pipeline", "_refresh">>
    /\ Len(event.rows) = 2
    /\ current_events = <<>>
    /\ popped # <<>>

\* C10: the units popped, followed by the units buffered, are the units
\* prepared from the raw events pulled so far, in order; and a raw event is
\* pulled, one at a time, only when the buffer is empty.
C10_PoppedIsPrefixOfProduced ==
    /\ [](popped \o current_events = produced)
    /\ [][pulled' # pulled => (current_events = <<>> /\ pulled' = pulled + 1)]_vars

RowOf(u) == IF "row" \in DOMAIN u THEN u.row ELSE "None"

C10_Witness ==
    /\ Len(popped) = 3
    /\ RowOf(popped[1]) = "r1"
    /\ RowOf(popped[2]) = "r2"
    /\ RowOf(popped[3]) = "r1"
    /\ Len(current_events) = 1
    /\ pulled = 2
    /\ last.op = "peek"

====
